---------------------------- MODULE Spec2Model ----------------------------
(***************************************************************************)
(* RP2040 peripheral controller firmware (firmware/src/main.cpp with       *)
(* firmware/include/i2c_registers.h and pin_config.h): the 128-byte I2C    *)
(* register bank, the I2C slave callbacks, the encoder edge interrupt and  *)
(* the 100 Hz main loop, as one state machine.                             *)
(*                                                                         *)
(* Three activities run on one core.  The main loop executes its           *)
(* statements one at a time (variable pc); the I2C callbacks and the       *)
(* encoder interrupt service routine run to completion and may be taken    *)
(* between any two statements of the main loop.                            *)
(***************************************************************************)
EXTENDS Integers, Sequences, FiniteSets, TLC

(***************************************************************************)
(* Register map, bit masks and command codes (i2c_registers.h).            *)
(***************************************************************************)
BANK_SIZE == 128

REG_DEVICE_ID == 0
REG_FIRMWARE_VER_MAJ == 1
REG_FIRMWARE_VER_MIN == 2
REG_FIRMWARE_VER_PATCH == 3
REG_CONTROL == 16
REG_STATUS == 17
REG_ERROR == 18
REG_VU_LEFT == 32
REG_VU_RIGHT == 33
REG_VU_MODE == 34
REG_BACKLIGHT == 48
REG_BACKLIGHT_MODE == 49
REG_TAPE_SPEED == 64
REG_TAPE_DIRECTION == 65
REG_TAPE_MODE == 66
REG_INPUT_STATUS_LOW == 80
REG_INPUT_STATUS_HIGH == 81
REG_INPUT_CHANGED_LOW == 82
REG_INPUT_CHANGED_HIGH == 83
REG_ENCODER_POS_LOW == 96
REG_ENCODER_POS_HIGH == 97
REG_ENCODER_DELTA == 98
REG_ENCODER_BUTTON == 99
REG_CONFIG_VU_FREQ == 112
REG_CONFIG_DEBOUNCE == 113
REG_CONFIG_OPTIONS == 114
REG_COMMAND == 240

CTRL_ENABLE == 1
CTRL_RESET_ENCODER == 2
CTRL_CLEAR_INPUTS == 4
CTRL_VU_ENABLE == 8
CTRL_BACKLIGHT_ENABLE == 16
CTRL_TAPE_ENABLE == 32

STATUS_READY == 1
STATUS_ERROR == 2
STATUS_VU_ACTIVE == 4
STATUS_BACKLIGHT_ON == 8
STATUS_TAPE_RUNNING == 16
STATUS_INPUT_CHANGED == 32
STATUS_ENCODER_CHANGED == 64
STATUS_BUTTON_PRESSED == 128

ERROR_I2C_OVERFLOW == 1
ERROR_INVALID_REG == 2
ERROR_INVALID_CMD == 4

VU_MODE_NORMAL == 0
VU_MODE_OFF == 255
BACKLIGHT_MODE_MANUAL == 0
BACKLIGHT_MODE_OFF == 255
TAPE_DIR_STOP == 0
TAPE_DIR_FORWARD == 1
TAPE_DIR_REVERSE == 2
TAPE_DIR_BRAKE == 3
TAPE_MODE_MANUAL == 0
TAPE_MODE_OFF == 255

ENC_BTN_RELEASED == 0
ENC_BTN_PRESSED == 1
ENC_BTN_HELD == 2
ENC_BTN_DOUBLE_CLICK == 3

CMD_NOP == 0
CMD_RESET == 1
CMD_FACTORY_RESET == 2
CMD_CALIBRATE_VU == 16
CMD_TEST_VU_LEFT == 17
CMD_TEST_VU_RIGHT == 18
CMD_TEST_VU_BOTH == 19
CMD_TEST_BACKLIGHT == 32
CMD_TEST_TAPE_MOTOR == 48
CMD_TEST_ALL == 255

DEVICE_ID == 82
FIRMWARE_VERSION_MAJOR == 1
FIRMWARE_VERSION_MINOR == 0
FIRMWARE_VERSION_PATCH == 0

NUM_DIGITAL_INPUTS == 12
INPUT_DEBOUNCE_MS == 50
BACKLIGHT_DEFAULT == 128
CONFIG_VU_FREQ_DEFAULT == 1
TICK_MS == 10
BOOT_DELAY_MS == 1000
DOUBLE_CLICK_MS == 300
HOLD_MS == 1000
PWM_MAX == 255
READ_ERROR_VALUE == 255
I2C_BUFFER_SIZE == 32

(***************************************************************************)
(* Fixed-width arithmetic: uint8_t bytes, int8_t and int16_t counters.     *)
(***************************************************************************)
Byte == 0..255

BitAt(x, k) == (x \div (2 ^ k)) % 2

RECURSIVE AndBits(_, _, _)
AndBits(x, y, k) ==
    IF k > 7 THEN 0
    ELSE BitAt(x, k) * BitAt(y, k) * (2 ^ k) + AndBits(x, y, k + 1)

BitAnd(x, y) == AndBits(x, y, 0)
BitOr(x, y) == x + y - BitAnd(x, y)
BitXor(x, y) == x + y - 2 * BitAnd(x, y)
BitClear(x, mask) == x - BitAnd(x, mask)
HasBit(x, mask) == BitAnd(x, mask) # 0

\* uint8_t(x): the low eight bits.
ToU8(x) == x % 256
\* int8_t(x): conversion of an int result back to a signed byte wraps.
ToI8(x) == ((x + 128) % 256) - 128
\* int16_t(x)
ToI16(x) == ((x + 32768) % 65536) - 32768


(***************************************************************************)
(* The register bank: i2c_registers_init, i2c_register_read,               *)
(* i2c_register_write, i2c_execute_command.                                *)
(***************************************************************************)
BankAddr == 0..(BANK_SIZE - 1)

\* The initialization with the backlight default left out.
InitBankByte_NoBacklight(a) ==
    CASE a = REG_DEVICE_ID -> DEVICE_ID
      [] a = REG_FIRMWARE_VER_MAJ -> FIRMWARE_VERSION_MAJOR
      [] a = REG_CONTROL -> CTRL_ENABLE
      [] a = REG_STATUS -> STATUS_READY
      [] a = REG_INPUT_STATUS_LOW -> 255
      [] a = REG_INPUT_STATUS_HIGH -> 15
      [] a = REG_CONFIG_VU_FREQ -> CONFIG_VU_FREQ_DEFAULT
      [] a = REG_CONFIG_DEBOUNCE -> INPUT_DEBOUNCE_MS
      [] OTHER -> 0

\* memset to zero, then the identity and the defaults.
InitBankByte(a) ==
    CASE a = REG_DEVICE_ID -> DEVICE_ID
      [] a = REG_FIRMWARE_VER_MAJ -> FIRMWARE_VERSION_MAJOR
      [] a = REG_FIRMWARE_VER_MIN -> FIRMWARE_VERSION_MINOR
      [] a = REG_FIRMWARE_VER_PATCH -> FIRMWARE_VERSION_PATCH
      [] a = REG_CONTROL -> CTRL_ENABLE
      [] a = REG_STATUS -> STATUS_READY
      [] a = REG_VU_MODE -> VU_MODE_NORMAL
      [] a = REG_BACKLIGHT -> BACKLIGHT_DEFAULT
      [] a = REG_BACKLIGHT_MODE -> BACKLIGHT_MODE_MANUAL
      [] a = REG_TAPE_DIRECTION -> TAPE_DIR_STOP
      [] a = REG_TAPE_MODE -> TAPE_MODE_MANUAL
      [] a = REG_INPUT_STATUS_LOW -> 255
      [] a = REG_INPUT_STATUS_HIGH -> 15
      [] a = REG_CONFIG_VU_FREQ -> CONFIG_VU_FREQ_DEFAULT
      [] a = REG_CONFIG_DEBOUNCE -> INPUT_DEBOUNCE_MS
      [] OTHER -> 0

i2c_registers_init == [a \in BankAddr |-> InitBankByte(a)]

\* registers.error |= ERROR_INVALID_REG, dropped by mistake.
InvalidAccess_NoFlag(regs) == regs

\* registers.error |= ERROR_INVALID_REG
InvalidAccess(regs) == [regs EXCEPT ![REG_ERROR] = BitOr(@, ERROR_INVALID_REG)]

\* The bounds check of both accessors: reg_addr >= sizeof(I2CRegisterBank).
OutOfBank(reg_addr) == reg_addr >= BANK_SIZE

\* The read-only check with < for <=.
IsReadOnly_OffByOne(reg_addr) == reg_addr < REG_FIRMWARE_VER_PATCH

\* The read-only check of i2c_register_write: reg_addr <= 0x03.
IsReadOnly(reg_addr) == reg_addr <= REG_FIRMWARE_VER_PATCH

\* The case labels of i2c_execute_command that end in "break".
AcceptedCommands ==
    {CMD_NOP, CMD_RESET, CMD_TEST_VU_LEFT, CMD_TEST_VU_RIGHT, CMD_TEST_VU_BOTH,
     CMD_TEST_BACKLIGHT, CMD_TEST_TAPE_MOTOR, CMD_TEST_ALL}

\* i2c_execute_command(command) on bank regs: the bank after it and the
\* value returned.
i2c_execute_command(regs, command) ==
    IF command \in AcceptedCommands
    THEN [registers |-> IF command = CMD_RESET THEN i2c_registers_init ELSE regs,
          ok |-> TRUE]
    ELSE [registers |-> [regs EXCEPT ![REG_ERROR] = BitOr(@, ERROR_INVALID_CMD)],
          ok |-> FALSE]

\* i2c_register_read(reg_addr) on bank regs: the bank after it (the
\* auto-clear side effects) and the byte returned.
i2c_register_read(regs, reg_addr) ==
    IF OutOfBank(reg_addr)
    THEN [registers |-> InvalidAccess(regs),
          value |-> READ_ERROR_VALUE]
    ELSE [registers |->
            CASE reg_addr = REG_INPUT_CHANGED_LOW ->
                   [regs EXCEPT ![REG_INPUT_CHANGED_LOW] = 0,
                                ![REG_STATUS] =
                                    IF regs[REG_INPUT_CHANGED_HIGH] = 0
                                    THEN BitClear(@, STATUS_INPUT_CHANGED) ELSE @]
              [] reg_addr = REG_INPUT_CHANGED_HIGH ->
                   [regs EXCEPT ![REG_INPUT_CHANGED_HIGH] = 0,
                                ![REG_STATUS] =
                                    IF regs[REG_INPUT_CHANGED_LOW] = 0
                                    THEN BitClear(@, STATUS_INPUT_CHANGED) ELSE @]
              [] reg_addr = REG_ENCODER_DELTA ->
                   [regs EXCEPT ![REG_STATUS] = BitClear(@, STATUS_ENCODER_CHANGED)]
              [] OTHER -> regs,
          value |-> regs[reg_addr]]

\* The special operations with the two "clear the bit after action" lines left out.
ControlSideEffects_KeepBits(st, value) ==
    LET s1 == IF HasBit(value, CTRL_RESET_ENCODER)
              THEN [registers |->
                        [st.registers EXCEPT ![REG_ENCODER_POS_LOW] = 0,
                                             ![REG_ENCODER_POS_HIGH] = 0,
                                             ![REG_ENCODER_DELTA] = 0],
                    encoder_position |-> 0,
                    encoder_delta |-> 0]
              ELSE st
    IN  IF HasBit(value, CTRL_CLEAR_INPUTS)
        THEN [s1 EXCEPT !.registers =
                 [@ EXCEPT ![REG_INPUT_CHANGED_LOW] = 0,
                           ![REG_INPUT_CHANGED_HIGH] = 0,
                           ![REG_STATUS] = BitClear(@, STATUS_INPUT_CHANGED)]]
        ELSE s1

\* The special operations of a write to REG_CONTROL, after the byte is stored.
\* st holds the bank and the two encoder counters the write may zero.
ControlSideEffects(st, value) ==
    LET s1 == IF HasBit(value, CTRL_RESET_ENCODER)
              THEN [registers |->
                        [st.registers EXCEPT ![REG_ENCODER_POS_LOW] = 0,
                                             ![REG_ENCODER_POS_HIGH] = 0,
                                             ![REG_ENCODER_DELTA] = 0,
                                             ![REG_CONTROL] =
                                                 BitClear(@, CTRL_RESET_ENCODER)],
                    encoder_position |-> 0,
                    encoder_delta |-> 0]
              ELSE st
    IN  IF HasBit(value, CTRL_CLEAR_INPUTS)
        THEN [s1 EXCEPT !.registers =
                 [@ EXCEPT ![REG_INPUT_CHANGED_LOW] = 0,
                           ![REG_INPUT_CHANGED_HIGH] = 0,
                           ![REG_STATUS] = BitClear(@, STATUS_INPUT_CHANGED),
                           ![REG_CONTROL] = BitClear(@, CTRL_CLEAR_INPUTS)]]
        ELSE s1

\* i2c_register_write(reg_addr, value) on st = [registers, encoder_position,
\* encoder_delta]: the three after it, and the value returned.
\* Mutant of i2c_register_write: a CMD_RESET at the command port also zeroes
\* the encoder position.
i2c_register_write_ResetClearsEncoder(st, reg_addr, value) ==
    IF IsReadOnly(reg_addr)
    THEN [registers |-> InvalidAccess(st.registers),
          encoder_position |-> st.encoder_position,
          encoder_delta |-> st.encoder_delta,
          ok |-> FALSE]
    ELSE IF reg_addr = REG_COMMAND
    THEN LET c == i2c_execute_command(st.registers, value)
         IN  [registers |-> c.registers,
              encoder_position |-> IF value = CMD_RESET THEN 0 ELSE st.encoder_position,
              encoder_delta |-> st.encoder_delta,
              ok |-> c.ok]
    ELSE IF OutOfBank(reg_addr)
    THEN [registers |-> InvalidAccess(st.registers),
          encoder_position |-> st.encoder_position,
          encoder_delta |-> st.encoder_delta,
          ok |-> FALSE]
    ELSE LET stored == [st EXCEPT !.registers[reg_addr] = value]
             after == IF reg_addr = REG_CONTROL
                      THEN ControlSideEffects(stored, value)
                      ELSE stored
         IN  [registers |-> after.registers,
              encoder_position |-> after.encoder_position,
              encoder_delta |-> after.encoder_delta,
              ok |-> TRUE]

i2c_register_write(st, reg_addr, value) ==
    IF IsReadOnly(reg_addr)
    THEN [registers |-> InvalidAccess(st.registers),
          encoder_position |-> st.encoder_position,
          encoder_delta |-> st.encoder_delta,
          ok |-> FALSE]
    ELSE IF reg_addr = REG_COMMAND
    THEN LET c == i2c_execute_command(st.registers, value)
         IN  [registers |-> c.registers,
              encoder_position |-> st.encoder_position,
              encoder_delta |-> st.encoder_delta,
              ok |-> c.ok]
    ELSE IF OutOfBank(reg_addr)
    THEN [registers |-> InvalidAccess(st.registers),
          encoder_position |-> st.encoder_position,
          encoder_delta |-> st.encoder_delta,
          ok |-> FALSE]
    ELSE LET stored == [st EXCEPT !.registers[reg_addr] = value]
             after == IF reg_addr = REG_CONTROL
                      THEN ControlSideEffects(stored, value)
                      ELSE stored
         IN  [registers |-> after.registers,
              encoder_position |-> after.encoder_position,
              encoder_delta |-> after.encoder_delta,
              ok |-> TRUE]

(***************************************************************************)
(* State.                                                                  *)
(***************************************************************************)
VARIABLES
    registers,                    \* I2CRegisterBank registers, byte by byte
    current_register,             \* the I2C address pointer
    input_state_low,              \* stable bitmap, inputs 1-8
    input_state_high,             \* stable bitmap, inputs 9-12
    input_last_change,            \* per input, millis() of the last commit
    encoder_position,             \* volatile int16_t
    encoder_delta,                \* volatile int8_t
    encoder_state,                \* previous quadrature state, 0..3
    encoder_button_state,
    encoder_button_press_time,
    encoder_button_last_release,
    last_update,                  \* loop()'s static last_update
    now,                          \* millis()
    pin_inputs,                   \* levels of the 12 input pins, bit i = pin i
    pin_button,                   \* level of the encoder button pin (0 = pressed)
    pwm,                          \* duty last given to analogWrite, per pin
    pc,                           \* the main loop's next statement
    loc,                          \* the main loop's locals
    \* History, written by the actions and read only by the properties.
    last,                         \* the action taken last and what it returned
    txn_reads,                    \* bytes returned so far in the host's read transaction
    captured,                     \* positions update_encoder has sampled so far
    reset_clean,                  \* encoder registers not read since a RESET_ENCODER write
                                  \* that no edge or encoder-byte write has followed
    d_tick,                       \* true net displacement since the last sample
    d_sampled,                    \* d_tick at the last sample
    d_ok,                         \* no RESET_ENCODER write in the interval d_tick covers
    d_sampled_ok,                 \* d_ok at the last sample
    pos_at_sample,                \* encoder_position at the last two samples
    d_unread,                     \* sum of the deltas published since the host last read
                                  \* 0x62 or reset the encoder
    edges,                        \* interrupts taken since the last sample
    nops,                         \* host transactions and byte reads so far
    rt,                           \* the write a read would round-trip, if any
    pin_hist,                     \* per input pin, how often it changed and when last
    toggles,                      \* changes of input and button pins so far
    owed1,                        \* channels committed by a scan whose OR-store is still to come
    owed2,                        \* channels OR-stored and not yet returned by a host read
    missed,                       \* channels a host read missed between their commit and the store
    changed_read,                 \* INPUT_CHANGED registers read since the last commit or host write
    tick_clean,                   \* no host write since the current tick began
    stable_since,                 \* per input channel, when its stable bit last changed
    isr_sum,                      \* sum of the deltas encoder_isr has counted
    published,                    \* sum of the bytes, read as int8_t, the ticks have stored
                                  \* to ENCODER_DELTA
    after_reset                   \* "armed": a soft reset was served between ticks and
                                  \* nothing else happened since; "ticking": the tick that
                                  \* began in "armed"; "none" otherwise

bankvars == <<registers, current_register>>
inputvars == <<input_state_low, input_state_high, input_last_change,
               encoder_button_state, encoder_button_press_time,
               encoder_button_last_release>>
encvars == <<encoder_position, encoder_delta, encoder_state>>
mainvars == <<pc, loc, last_update, pwm>>
envvars == <<now, pin_inputs, pin_button>>
histvars == <<last, txn_reads, captured, reset_clean, d_tick, d_sampled, d_ok,
              d_sampled_ok, pos_at_sample, d_unread, edges, nops, rt>>
hist2vars == <<pin_hist, toggles, owed1, owed2, missed, changed_read, tick_clean>>
hist3vars == <<stable_since, isr_sum, published, after_reset>>
vars == <<bankvars, inputvars, encvars, mainvars, envvars, histvars, hist2vars, hist3vars>>

PwmPins == {"VU_LEFT_IN1", "VU_LEFT_IN2", "VU_RIGHT_IN1", "VU_RIGHT_IN2",
            "BACKLIGHT_IN1", "BACKLIGHT_IN2", "TAPE_MOTOR_IN1", "TAPE_MOTOR_IN2"}

\* The locals of the tick, at their values outside a tick.
LocIdle == [new_state_low |-> 0, new_state_high |-> 0,
            changed_low |-> 0, changed_high |-> 0,
            tmp |-> 0, rmw |-> "none", pos |-> 0, delta |-> 0,
            vu_enabled |-> FALSE, backlight_enabled |-> FALSE,
            tape_enabled |-> FALSE]

NoOp == [op |-> "none", bytes |-> <<>>, oks |-> <<>>, addr |-> 0, value |-> 0,
         expect |-> -1, sent |-> <<>>]
NoWrite == [addr |-> -1, value |-> -1]

\* The state after setup(): globals at their initializers, the bank
\* initialized, PWM outputs at 0, pins pulled up, and millis() past the
\* delay(1000) setup() begins with.
Init ==
    /\ registers = i2c_registers_init
    /\ current_register = 0
    /\ input_state_low = 255
    /\ input_state_high = 15
    /\ input_last_change = [i \in 0..(NUM_DIGITAL_INPUTS - 1) |-> 0]
    /\ encoder_position = 0
    /\ encoder_delta = 0
    /\ encoder_state = 0
    /\ encoder_button_state = ENC_BTN_RELEASED
    /\ encoder_button_press_time = 0
    /\ encoder_button_last_release = 0
    /\ last_update = 0
    /\ now = BOOT_DELAY_MS
    /\ pin_inputs = 4095
    /\ pin_button = 1
    /\ pwm = [p \in PwmPins |-> 0]
    /\ pc = "loop"
    /\ loc = LocIdle
    /\ last = NoOp
    /\ txn_reads = <<>>
    /\ captured = {0}
    /\ reset_clean = {}
    /\ d_tick = 0
    /\ d_sampled = 0
    /\ d_ok = TRUE
    /\ d_sampled_ok = TRUE
    /\ pos_at_sample = <<0, 0>>
    /\ d_unread = 0
    /\ edges = 0
    /\ nops = 0
    /\ rt = NoWrite
    /\ pin_hist = [i \in 0..(NUM_DIGITAL_INPUTS - 1) |-> [n |-> 0, t |-> 0]]
    /\ toggles = 0
    /\ owed1 = {}
    /\ owed2 = {}
    /\ missed = {}
    /\ changed_read = {}
    /\ tick_clean = TRUE
    /\ stable_since = [i \in 0..(NUM_DIGITAL_INPUTS - 1) |-> 0]
    /\ isr_sum = 0
    /\ published = 0
    /\ after_reset = "none"

(***************************************************************************)
(* I2C callbacks.  Each runs to completion in interrupt context.           *)
(***************************************************************************)
\* The while loop of i2c_receive_handler over the data bytes data[k..].
RECURSIVE WriteLoop(_, _, _, _)
WriteLoop(st, ptr, data, k) ==
    IF k > Len(data)
    THEN [registers |-> st.registers,
          encoder_position |-> st.encoder_position,
          encoder_delta |-> st.encoder_delta,
          current_register |-> ptr,
          oks |-> <<>>]
    ELSE LET w == i2c_register_write(st, ptr, data[k])
             rest == WriteLoop([registers |-> w.registers,
                                encoder_position |-> w.encoder_position,
                                encoder_delta |-> w.encoder_delta],
                               ToU8(ptr + 1), data, k + 1)
         IN  \* the result of the write is not tested: the loop goes on alike
             IF w.ok THEN [rest EXCEPT !.oks = <<TRUE>> \o @]
             ELSE [rest EXCEPT !.oks = <<FALSE>> \o @]

\* Mutant of i2c_receive_handler: the loop ends at the first rejected byte.
i2c_receive_handler_StopOnReject(st, ptr, bytes) ==
    IF Len(bytes) < 1
    THEN [registers |-> st.registers,
          encoder_position |-> st.encoder_position,
          encoder_delta |-> st.encoder_delta,
          current_register |-> ptr,
          oks |-> <<>>]
    ELSE LET oks == WriteLoop(st, bytes[1], Tail(bytes), 1).oks
             stop == IF \E k \in 1..Len(oks) : ~oks[k]
                     THEN CHOOSE k \in 1..Len(oks) :
                              ~oks[k] /\ \A j \in 1..(k - 1) : oks[j]
                     ELSE Len(oks)
         IN  WriteLoop(st, bytes[1], SubSeq(Tail(bytes), 1, stop), 1)

\* i2c_receive_handler(byte_count) with the received bytes.
i2c_receive_handler(st, ptr, bytes) ==
    IF Len(bytes) < 1
    THEN [registers |-> st.registers,
          encoder_position |-> st.encoder_position,
          encoder_delta |-> st.encoder_delta,
          current_register |-> ptr,
          oks |-> <<>>]
    ELSE WriteLoop(st, bytes[1], Tail(bytes), 1)

\* The register a data byte of a write transaction goes to.
WriteTarget(bytes, k) == ToU8(bytes[1] + k - 1)

\* The encoder registers of the bank.
EncoderRegs == {REG_ENCODER_POS_LOW, REG_ENCODER_POS_HIGH, REG_ENCODER_DELTA}

\* History only: reset_clean after the writes of this transaction.  A write
\* of RESET_ENCODER makes the three registers pending, a host write to one
\* of them ends that.
RECURSIVE CleanAfter(_, _, _)
CleanAfter(clean, bytes, k) ==
    IF k + 1 > Len(bytes) THEN clean
    ELSE LET a == WriteTarget(bytes, k)
             v == bytes[k + 1]
         IN  CleanAfter(IF a = REG_CONTROL /\ HasBit(v, CTRL_RESET_ENCODER)
                        THEN EncoderRegs
                        ELSE IF a \in EncoderRegs THEN {}
                        ELSE clean,
                        bytes, k + 1)

\* The two INPUT_CHANGED registers, and the input channels each reports.
ChangedRegs == {REG_INPUT_CHANGED_LOW, REG_INPUT_CHANGED_HIGH}
ChannelsOf(reg_addr) ==
    IF reg_addr = REG_INPUT_CHANGED_LOW THEN 0..7
    ELSE IF reg_addr = REG_INPUT_CHANGED_HIGH THEN 8..(NUM_DIGITAL_INPUTS - 1)
    ELSE {}
\* The channels whose bit is set in the byte value of register reg_addr.
ChannelsIn(reg_addr, value) == {c \in ChannelsOf(reg_addr) : BitAt(value, c % 8) = 1}

\* History only: the transaction writes an INPUT_CHANGED register, sets
\* CLEAR_INPUTS or issues the soft reset.
TouchesChanged(bytes) ==
    \E k \in 1..(Len(bytes) - 1) :
        \/ WriteTarget(bytes, k) \in ChangedRegs
        \/ WriteTarget(bytes, k) = REG_CONTROL /\ HasBit(bytes[k + 1], CTRL_CLEAR_INPUTS)
        \/ WriteTarget(bytes, k) = REG_COMMAND /\ bytes[k + 1] = CMD_RESET

WritesResetEncoder(bytes) ==
    \E k \in 1..(Len(bytes) - 1) :
        WriteTarget(bytes, k) = REG_CONTROL /\ HasBit(bytes[k + 1], CTRL_RESET_ENCODER)

\* History only: the write a following read of the same register would
\* round-trip.  A transaction of one data byte starts it, a transaction that
\* only sets the pointer keeps it, everything else ends it.
RoundTripAfter(bytes) ==
    IF Len(bytes) = 2 THEN [addr |-> bytes[1], value |-> bytes[2]]
    ELSE IF Len(bytes) = 1 THEN rt
    ELSE NoWrite

\* The host puts the bytes onBus on the bus as one write transaction, and
\* Wire1 calls i2c_receive_handler with bytes.
HostDeliver(onBus, bytes, maxOps) ==
    LET r == i2c_receive_handler([registers |-> registers,
                                  encoder_position |-> encoder_position,
                                  encoder_delta |-> encoder_delta],
                                 current_register, bytes)
    IN  /\ nops < maxOps
        /\ nops' = nops + 1
        /\ registers' = r.registers
        /\ encoder_position' = r.encoder_position
        /\ encoder_delta' = r.encoder_delta
        /\ current_register' = r.current_register
        /\ last' = [op |-> "receive", bytes |-> bytes, oks |-> r.oks,
                    addr |-> 0, value |-> 0, expect |-> -1, sent |-> onBus]
        /\ rt' = RoundTripAfter(bytes)
        /\ txn_reads' = <<>>
        /\ reset_clean' = CleanAfter(reset_clean, bytes, 1)
        /\ d_ok' = (d_ok /\ ~WritesResetEncoder(bytes))
        /\ d_unread' = IF WritesResetEncoder(bytes) THEN 0 ELSE d_unread
        /\ owed1' = IF TouchesChanged(bytes) THEN {} ELSE owed1
        /\ owed2' = IF TouchesChanged(bytes) THEN {} ELSE owed2
        /\ missed' = IF TouchesChanged(bytes) THEN {} ELSE missed
        /\ changed_read' = IF Len(bytes) >= 2 THEN {} ELSE changed_read
        /\ tick_clean' = (tick_clean /\ Len(bytes) < 2)
        /\ after_reset' = IF Len(bytes) < 2 THEN after_reset
                          ELSE IF bytes = <<REG_COMMAND, CMD_RESET>> /\ pc = "loop"
                          THEN "armed" ELSE "none"
        /\ UNCHANGED <<pin_hist, toggles, stable_since, isr_sum, published>>
        /\ UNCHANGED <<inputvars, encoder_state, mainvars, envvars, captured,
                       d_tick, d_sampled, d_sampled_ok, pos_at_sample, edges>>

\* The host sends a write transaction carrying bytes, all of them delivered.
HostReceive(bytes, maxOps) == HostDeliver(bytes, bytes, maxOps)

\* What Wire1 hands to i2c_receive_handler of a transaction: main.cpp sets no
\* buffer size and never tests I2C_BUFFER_SIZE, so the library delivers
\* either every byte or only the bytes that fit a buffer of that size.
Wire1Delivers(onBus) ==
    {onBus, SubSeq(onBus, 1, IF Len(onBus) > I2C_BUFFER_SIZE THEN I2C_BUFFER_SIZE
                             ELSE Len(onBus))}

\* The host sends a write transaction that may exceed the buffer.
HostReceiveLong(onBus, maxOps) ==
    \E bytes \in Wire1Delivers(onBus) : HostDeliver(onBus, bytes, maxOps)

\* Mutant of i2c_request_handler: the pointer is left where it was.
i2c_request_handler_PointerStays(regs, ptr) ==
    LET r == i2c_register_read(regs, ptr)
    IN  [registers |-> r.registers, value |-> r.value, current_register |-> ptr]

\* i2c_request_handler(): the byte sent is the register at the pointer, and
\* the pointer (a uint8_t) moves on by one.
i2c_request_handler(regs, ptr) ==
    LET r == i2c_register_read(regs, ptr)
    IN  [registers |-> r.registers, value |-> r.value,
         current_register |-> ToU8(ptr + 1)]

\* The host clocks one byte out.
HostRequest(maxReads, maxOps) ==
    LET r == i2c_request_handler(registers, current_register)
    IN  /\ Len(txn_reads) < maxReads
        /\ nops < maxOps
        /\ nops' = nops + 1
        /\ rt' = NoWrite
        /\ registers' = r.registers
        /\ current_register' = r.current_register
        /\ last' = [op |-> "request", bytes |-> <<>>, oks |-> <<>>,
                    addr |-> current_register, value |-> r.value,
                    expect |-> IF rt.addr = current_register THEN rt.value ELSE -1,
                    sent |-> <<>>]
        /\ txn_reads' = Append(txn_reads, [addr |-> current_register, value |-> r.value])
        /\ d_unread' = IF current_register = REG_ENCODER_DELTA THEN 0 ELSE d_unread
        /\ reset_clean' = reset_clean \ {current_register}
        /\ owed2' = owed2 \ ChannelsIn(current_register, r.value)
        /\ missed' = missed \cup ((owed1 \cap ChannelsOf(current_register))
                                     \ ChannelsIn(current_register, r.value))
        /\ changed_read' = changed_read \cup ({current_register} \cap ChangedRegs)
        /\ UNCHANGED <<pin_hist, toggles, owed1, tick_clean>>
        /\ UNCHANGED hist3vars
        /\ UNCHANGED <<inputvars, encvars, mainvars, envvars, captured,
                       d_tick, d_sampled, d_ok, d_sampled_ok, pos_at_sample, edges>>

\* The host ends its read transaction.
HostStop ==
    /\ txn_reads # <<>>
    /\ txn_reads' = <<>>
    /\ last' = [NoOp EXCEPT !.op = "stop"]
    /\ rt' = NoWrite
    /\ UNCHANGED <<bankvars, inputvars, encvars, mainvars, envvars, captured,
                   reset_clean, d_tick, d_sampled, d_ok, d_sampled_ok,
                   pos_at_sample, d_unread, edges, nops>>
    /\ UNCHANGED <<hist2vars, hist3vars>>

(***************************************************************************)
(* Encoder edge interrupt.                                                 *)
(***************************************************************************)
\* transition_table[encoder_state][new_state]
transition_table ==
    << << 0, -1,  1,  0>>,
       << 1,  0,  0, -1>>,
       <<-1,  0,  0,  1>>,
       << 0,  1, -1,  0>> >>

\* encoder_isr() reading the pins as new_state: the three encoder globals after it.
encoder_isr(e, new_state) ==
    LET delta == transition_table[e.encoder_state + 1][new_state + 1]
    IN  [encoder_state |-> new_state,
         encoder_position |-> IF delta # 0 THEN ToI16(e.encoder_position + delta)
                              ELSE e.encoder_position,
         encoder_delta |-> IF delta # 0 THEN ToI8(e.encoder_delta + delta)
                           ELSE e.encoder_delta]

\* An edge on encoder channel A or B; the routine reads the pins as new_state.
EncoderEdge(new_state, maxEdges) ==
    LET e == encoder_isr([encoder_state |-> encoder_state,
                          encoder_position |-> encoder_position,
                          encoder_delta |-> encoder_delta], new_state)
    IN  /\ edges < maxEdges
        /\ encoder_state' = e.encoder_state
        /\ encoder_position' = e.encoder_position
        /\ encoder_delta' = e.encoder_delta
        /\ edges' = edges + 1
        /\ d_tick' = d_tick + transition_table[encoder_state + 1][new_state + 1]
        /\ reset_clean' = {}
        /\ last' = [NoOp EXCEPT !.op = "edge"]
        /\ rt' = NoWrite
        /\ UNCHANGED <<bankvars, inputvars, mainvars, envvars, txn_reads, captured,
                       d_sampled, d_ok, d_sampled_ok, pos_at_sample, d_unread, nops>>
        /\ isr_sum' = isr_sum + transition_table[encoder_state + 1][new_state + 1]
        /\ after_reset' = "none"
        /\ UNCHANGED <<hist2vars, stable_since, published>>

(***************************************************************************)
(* The main loop.  A value m of MainView is the part of the state the main *)
(* loop reads and writes; each operator below maps m to the view after the *)
(* statement at m.pc.  A read-modify-write of a bank byte (|=, &=) is a    *)
(* load into loc.tmp and a store, two statements.                          *)
(***************************************************************************)
MainView ==
    [pc |-> pc, loc |-> loc, registers |-> registers, pwm |-> pwm,
     input_state_low |-> input_state_low, input_state_high |-> input_state_high,
     input_last_change |-> input_last_change,
     encoder_button_state |-> encoder_button_state,
     encoder_button_press_time |-> encoder_button_press_time,
     encoder_button_last_release |-> encoder_button_last_release,
     encoder_delta |-> encoder_delta, last_update |-> last_update]

\* tmp = registers.<a>
Load(m, a, next) == [m EXCEPT !.loc.tmp = m.registers[a], !.pc = next]
\* Store without the modify: the byte loaded is written back unchanged.
Store_DropMask(m, a, mask, next) ==
    [m EXCEPT !.registers[a] = m.loc.tmp,
              !.loc.tmp = 0, !.loc.rmw = "none", !.pc = next]

\* registers.<a> = tmp | mask   or   tmp & ~mask, as loc.rmw says
Store(m, a, mask, next) ==
    [m EXCEPT !.registers[a] = IF m.loc.rmw = "clr" THEN BitClear(m.loc.tmp, mask)
                               ELSE BitOr(m.loc.tmp, mask),
              !.loc.tmp = 0, !.loc.rmw = "none", !.pc = next]

\* loop(): the 100 Hz gate.
TickDue == now - last_update >= TICK_MS

loop(m) == [m EXCEPT !.last_update = now, !.pc = "ui_scan"]

\* ---- update_inputs ----
\* digitalRead(DIGITAL_INPUT_PINS[i])
PinLevel(i) == BitAt(pin_inputs, i)

\* (i < 8 ? input_state_low : input_state_high) & (1 << (i % 8))
StableMasked(m, i) ==
    BitAnd(IF i < 8 THEN m.input_state_low ELSE m.input_state_high, 2 ^ (i % 8))

\* The stable bit of input i, as the "keep old state" branch reads it.
StableBit(m, i) ==
    IF i < 8 THEN BitAt(m.input_state_low, i) ELSE BitAt(m.input_state_high, i - 8)

\* state != (... & (1 << (i % 8))): a bool compared with a masked byte.
Differs(m, i) == PinLevel(i) # StableMasked(m, i)

\* Mutant of DebounceElapsed: no debounce window.
DebounceElapsed_Always(m, i) == now - m.input_last_change[i] >= 0

\* now - input_last_change[i] >= INPUT_DEBOUNCE_MS
DebounceElapsed(m, i) == now - m.input_last_change[i] >= INPUT_DEBOUNCE_MS

\* The bit the scan gives input i in new_state_low / new_state_high.
NewBit(m, i) ==
    IF Differs(m, i)
    THEN IF DebounceElapsed(m, i) THEN PinLevel(i) ELSE StableBit(m, i)
    ELSE PinLevel(i)

RECURSIVE PackBits(_, _, _)
PackBits(m, i, hi) ==
    IF i > hi THEN 0 ELSE NewBit(m, i) * (2 ^ (i % 8)) + PackBits(m, i + 1, hi)

ScanLastChange(m) ==
    [i \in 0..(NUM_DIGITAL_INPUTS - 1) |->
        IF Differs(m, i) /\ DebounceElapsed(m, i) THEN now ELSE m.input_last_change[i]]

\* bool btn_pressed = !digitalRead(PIN_ENCODER_BTN)
BtnPressed == pin_button = 0

update_inputs(m) ==
    CASE m.pc = "ui_scan" ->
           LET nl == PackBits(m, 0, 7)
               nh == PackBits(m, 8, NUM_DIGITAL_INPUTS - 1)
               cl == BitXor(m.input_state_low, nl)
               ch == BitXor(m.input_state_high, nh)
           IN  [m EXCEPT !.input_last_change = ScanLastChange(m),
                         !.loc.new_state_low = nl, !.loc.new_state_high = nh,
                         !.loc.changed_low = cl, !.loc.changed_high = ch,
                         !.pc = IF cl # 0 \/ ch # 0 THEN "ui_icl_ld" ELSE "ui_isl"]
      [] m.pc = "ui_icl_ld" -> Load(m, REG_INPUT_CHANGED_LOW, "ui_icl_st")
      [] m.pc = "ui_icl_st" -> Store(m, REG_INPUT_CHANGED_LOW, m.loc.changed_low, "ui_ich_ld")
      [] m.pc = "ui_ich_ld" -> Load(m, REG_INPUT_CHANGED_HIGH, "ui_ich_st")
      [] m.pc = "ui_ich_st" -> Store(m, REG_INPUT_CHANGED_HIGH, m.loc.changed_high, "ui_st_ld")
      [] m.pc = "ui_st_ld" -> Load(m, REG_STATUS, "ui_st_st")
      [] m.pc = "ui_st_st" -> Store(m, REG_STATUS, STATUS_INPUT_CHANGED, "ui_isl")
      [] m.pc = "ui_isl" ->
           [m EXCEPT !.input_state_low = m.loc.new_state_low,
                     !.input_state_high = m.loc.new_state_high,
                     !.registers[REG_INPUT_STATUS_LOW] = m.loc.new_state_low,
                     !.loc.new_state_low = 0, !.loc.new_state_high = 0,
                     !.loc.changed_low = 0, !.loc.changed_high = 0,
                     !.pc = "ui_ish"]
      [] m.pc = "ui_ish" ->
           [m EXCEPT !.registers[REG_INPUT_STATUS_HIGH] = m.input_state_high,
                     !.pc = "ui_btn"]
      [] m.pc = "ui_btn" ->
           IF BtnPressed /\ m.encoder_button_state = ENC_BTN_RELEASED
           THEN [m EXCEPT !.encoder_button_state =
                              IF now - m.encoder_button_last_release < DOUBLE_CLICK_MS
                              THEN ENC_BTN_DOUBLE_CLICK ELSE ENC_BTN_PRESSED,
                          !.encoder_button_press_time = now,
                          !.loc.rmw = "set", !.pc = "ui_bs_ld"]
           ELSE IF BtnPressed /\ m.encoder_button_state = ENC_BTN_PRESSED
           THEN [m EXCEPT !.encoder_button_state =
                              IF now - m.encoder_button_press_time >= HOLD_MS
                              THEN ENC_BTN_HELD ELSE @,
                          !.pc = "ui_eb"]
           ELSE IF ~BtnPressed /\ m.encoder_button_state # ENC_BTN_RELEASED
           THEN [m EXCEPT !.encoder_button_last_release = now,
                          !.encoder_button_state = ENC_BTN_RELEASED,
                          !.loc.rmw = "clr", !.pc = "ui_bs_ld"]
           ELSE [m EXCEPT !.pc = "ui_eb"]
      [] m.pc = "ui_bs_ld" -> Load(m, REG_STATUS, "ui_bs_st")
      [] m.pc = "ui_bs_st" -> Store(m, REG_STATUS, STATUS_BUTTON_PRESSED, "ui_eb")
      [] m.pc = "ui_eb" ->
           [m EXCEPT !.registers[REG_ENCODER_BUTTON] = m.encoder_button_state,
                     !.pc = "ue_sample"]

\* ---- update_encoder ----
\* pos & 0xFF, (pos >> 8) & 0xFF, and the int8_t delta as the bank byte.
PosLowByte(pos) == pos % 256
PosHighByte(pos) == (pos \div 256) % 256
DeltaByte(delta) == ToU8(delta)

\* Mutant of SampleAndZero: the accumulator is sampled and not cleared.
SampleAndZero_KeepDelta(m) ==
    [m EXCEPT !.loc.pos = encoder_position, !.loc.delta = m.encoder_delta,
              !.pc = "ue_pl"]

\* noInterrupts(); pos = encoder_position; delta = encoder_delta;
\* encoder_delta = 0; interrupts();  -- one step, no edge can fall inside.
SampleAndZero(m) ==
    [m EXCEPT !.loc.pos = encoder_position, !.loc.delta = m.encoder_delta,
              !.encoder_delta = 0, !.pc = "ue_pl"]

update_encoder(m) ==
    CASE m.pc = "ue_sample" -> SampleAndZero(m)
      [] m.pc = "ue_pl" ->
           [m EXCEPT !.registers[REG_ENCODER_POS_LOW] = PosLowByte(m.loc.pos),
                     !.pc = "ue_ph"]
      [] m.pc = "ue_ph" ->
           [m EXCEPT !.registers[REG_ENCODER_POS_HIGH] = PosHighByte(m.loc.pos),
                     !.loc.pos = 0, !.pc = "ue_d"]
      [] m.pc = "ue_d" ->
           [m EXCEPT !.registers[REG_ENCODER_DELTA] = DeltaByte(m.loc.delta),
                     !.loc.delta = 0, !.loc.rmw = IF m.loc.delta # 0 THEN "set" ELSE "none",
                     !.pc = IF m.loc.delta # 0 THEN "ue_st_ld" ELSE "pw_c1"]
      [] m.pc = "ue_st_ld" -> Load(m, REG_STATUS, "ue_st_st")
      [] m.pc = "ue_st_st" -> Store(m, REG_STATUS, STATUS_ENCODER_CHANGED, "pw_c1")

\* ---- update_pwm_outputs ----
\* Mutant of SetPwm: the two duties go to the wrong pins of the pair.
SetPwm_Swapped(m, in1, d1, in2, d2) == [m.pwm EXCEPT ![in1] = d2, ![in2] = d1]

\* Mutant of SetPwm: the first duty is driven on both pins of the pair.
SetPwm_Both(m, in1, d1, in2, d2) == [m.pwm EXCEPT ![in1] = d1, ![in2] = d1]

\* analogWrite on the two pins of one H-bridge.
SetPwm(m, in1, d1, in2, d2) == [m.pwm EXCEPT ![in1] = d1, ![in2] = d2]

update_pwm_outputs(m) ==
    CASE m.pc = "pw_c1" ->
           [m EXCEPT !.loc.vu_enabled = HasBit(m.registers[REG_CONTROL], CTRL_VU_ENABLE),
                     !.pc = "pw_c2"]
      [] m.pc = "pw_c2" ->
           [m EXCEPT !.loc.backlight_enabled =
                         HasBit(m.registers[REG_CONTROL], CTRL_BACKLIGHT_ENABLE),
                     !.pc = "pw_c3"]
      [] m.pc = "pw_c3" ->
           [m EXCEPT !.loc.tape_enabled = HasBit(m.registers[REG_CONTROL], CTRL_TAPE_ENABLE),
                     !.pc = "pw_vm"]
      [] m.pc = "pw_vm" ->
           IF m.loc.vu_enabled /\ m.registers[REG_VU_MODE] # VU_MODE_OFF
           THEN [m EXCEPT !.loc.vu_enabled = FALSE, !.pc = "pw_vl"]
           ELSE [m EXCEPT !.pwm = [m.pwm EXCEPT !["VU_LEFT_IN1"] = 0, !["VU_LEFT_IN2"] = 0,
                                                !["VU_RIGHT_IN1"] = 0, !["VU_RIGHT_IN2"] = 0],
                          !.loc.vu_enabled = FALSE, !.loc.rmw = "clr", !.pc = "pw_vs_ld"]
      [] m.pc = "pw_vl" ->
           [m EXCEPT !.pwm = SetPwm(m, "VU_LEFT_IN1", m.registers[REG_VU_LEFT],
                                    "VU_LEFT_IN2", 0),
                     !.pc = "pw_vr"]
      [] m.pc = "pw_vr" ->
           [m EXCEPT !.pwm = SetPwm(m, "VU_RIGHT_IN1", m.registers[REG_VU_RIGHT],
                                    "VU_RIGHT_IN2", 0),
                     !.loc.rmw = "set", !.pc = "pw_vs_ld"]
      [] m.pc = "pw_vs_ld" -> Load(m, REG_STATUS, "pw_vs_st")
      [] m.pc = "pw_vs_st" -> Store(m, REG_STATUS, STATUS_VU_ACTIVE, "pw_bm")
      [] m.pc = "pw_bm" ->
           IF m.loc.backlight_enabled /\ m.registers[REG_BACKLIGHT_MODE] # BACKLIGHT_MODE_OFF
           THEN [m EXCEPT !.loc.backlight_enabled = FALSE, !.pc = "pw_bl"]
           ELSE [m EXCEPT !.pwm = SetPwm(m, "BACKLIGHT_IN1", 0, "BACKLIGHT_IN2", 0),
                          !.loc.backlight_enabled = FALSE, !.loc.rmw = "clr",
                          !.pc = "pw_bs_ld"]
      [] m.pc = "pw_bl" ->
           [m EXCEPT !.pwm = SetPwm(m, "BACKLIGHT_IN1", m.registers[REG_BACKLIGHT],
                                    "BACKLIGHT_IN2", 0),
                     !.loc.rmw = "set", !.pc = "pw_bs_ld"]
      [] m.pc = "pw_bs_ld" -> Load(m, REG_STATUS, "pw_bs_st")
      [] m.pc = "pw_bs_st" -> Store(m, REG_STATUS, STATUS_BACKLIGHT_ON, "pw_tm")
      [] m.pc = "pw_tm" ->
           IF m.loc.tape_enabled /\ m.registers[REG_TAPE_MODE] # TAPE_MODE_OFF
           THEN [m EXCEPT !.loc.tape_enabled = FALSE, !.pc = "pw_td"]
           ELSE [m EXCEPT !.pwm = SetPwm(m, "TAPE_MOTOR_IN1", 0, "TAPE_MOTOR_IN2", 0),
                          !.loc.tape_enabled = FALSE, !.loc.rmw = "clr", !.pc = "pw_ts_ld"]
      [] m.pc = "pw_td" ->
           LET dir == m.registers[REG_TAPE_DIRECTION]
           IN  CASE dir = TAPE_DIR_FORWARD -> [m EXCEPT !.pc = "pw_tf"]
                 [] dir = TAPE_DIR_REVERSE -> [m EXCEPT !.pc = "pw_tr"]
                 [] dir = TAPE_DIR_BRAKE ->
                      [m EXCEPT !.pwm = SetPwm(m, "TAPE_MOTOR_IN1", PWM_MAX,
                                               "TAPE_MOTOR_IN2", PWM_MAX),
                                !.loc.rmw = "clr", !.pc = "pw_ts_ld"]
                 [] OTHER ->
                      [m EXCEPT !.pwm = SetPwm(m, "TAPE_MOTOR_IN1", 0, "TAPE_MOTOR_IN2", 0),
                                !.loc.rmw = "clr", !.pc = "pw_ts_ld"]
      [] m.pc = "pw_tf" ->
           [m EXCEPT !.pwm = SetPwm(m, "TAPE_MOTOR_IN1", m.registers[REG_TAPE_SPEED],
                                    "TAPE_MOTOR_IN2", 0),
                     !.loc.rmw = "set", !.pc = "pw_ts_ld"]
      [] m.pc = "pw_tr" ->
           [m EXCEPT !.pwm = SetPwm(m, "TAPE_MOTOR_IN1", 0,
                                    "TAPE_MOTOR_IN2", m.registers[REG_TAPE_SPEED]),
                     !.loc.rmw = "set", !.pc = "pw_ts_ld"]
      [] m.pc = "pw_ts_ld" -> Load(m, REG_STATUS, "pw_ts_st")
      [] m.pc = "pw_ts_st" -> Store(m, REG_STATUS, STATUS_TAPE_RUNNING, "loop")

InputsPcs == {"ui_scan", "ui_icl_ld", "ui_icl_st", "ui_ich_ld", "ui_ich_st", "ui_st_ld",
              "ui_st_st", "ui_isl", "ui_ish", "ui_btn", "ui_bs_ld", "ui_bs_st", "ui_eb"}
EncoderPcs == {"ue_sample", "ue_pl", "ue_ph", "ue_d", "ue_st_ld", "ue_st_st"}
PwmPcs == {"pw_c1", "pw_c2", "pw_c3", "pw_vm", "pw_vl", "pw_vr", "pw_vs_ld", "pw_vs_st",
           "pw_bm", "pw_bl", "pw_bs_ld", "pw_bs_st", "pw_tm", "pw_td", "pw_tf", "pw_tr",
           "pw_ts_ld", "pw_ts_st"}

\* The main loop's view after its next statement.
MainNext(m) ==
    CASE m.pc = "loop" -> loop(m)
      [] m.pc \in InputsPcs -> update_inputs(m)
      [] m.pc \in EncoderPcs -> update_encoder(m)
      [] m.pc \in PwmPcs -> update_pwm_outputs(m)

\* History only: the channels whose stable bit the scan of this tick changed,
\* from the locals changed_low and changed_high (empty once the tick has
\* assigned the stable bitmaps).
Committed(l) ==
    ChannelsIn(REG_INPUT_CHANGED_LOW, l.changed_low)
        \cup ChannelsIn(REG_INPUT_CHANGED_HIGH, l.changed_high)

\* The main loop executes its next statement.
MainStep ==
    LET n == MainNext(MainView)
    IN  /\ pc = "loop" => TickDue
        /\ pc' = n.pc
        /\ loc' = n.loc
        /\ registers' = n.registers
        /\ pwm' = n.pwm
        /\ input_state_low' = n.input_state_low
        /\ input_state_high' = n.input_state_high
        /\ input_last_change' = n.input_last_change
        /\ encoder_button_state' = n.encoder_button_state
        /\ encoder_button_press_time' = n.encoder_button_press_time
        /\ encoder_button_last_release' = n.encoder_button_last_release
        /\ encoder_delta' = n.encoder_delta
        /\ last_update' = n.last_update
        /\ last' = [NoOp EXCEPT !.op = "main"]
        /\ IF pc = "ue_sample"
           THEN /\ captured' = captured \cup {encoder_position}
                /\ d_sampled' = d_tick
                /\ d_tick' = 0
                /\ d_sampled_ok' = d_ok
                /\ d_ok' = TRUE
                /\ pos_at_sample' = <<pos_at_sample[2], encoder_position>>
                /\ edges' = 0
           ELSE UNCHANGED <<captured, d_sampled, d_tick, d_sampled_ok, d_ok,
                            pos_at_sample, edges>>
        /\ d_unread' = IF pc = "ue_d" THEN d_unread + loc.delta ELSE d_unread
        /\ rt' = NoWrite
        /\ owed1' = CASE pc = "ui_scan" -> owed1 \cup Committed(n.loc)
                       [] pc = "ui_icl_st" -> owed1 \ ChannelsOf(REG_INPUT_CHANGED_LOW)
                       [] pc = "ui_ich_st" -> owed1 \ ChannelsOf(REG_INPUT_CHANGED_HIGH)
                       [] OTHER -> owed1
        /\ owed2' = CASE pc = "ui_icl_st" ->
                            owed2 \cup (owed1 \cap ChannelsOf(REG_INPUT_CHANGED_LOW))
                       [] pc = "ui_ich_st" ->
                            owed2 \cup (owed1 \cap ChannelsOf(REG_INPUT_CHANGED_HIGH))
                       [] OTHER -> owed2
        /\ missed' = IF pc = "ui_scan" THEN missed \ Committed(n.loc) ELSE missed
        /\ changed_read' = IF Committed(loc) # {} \/ Committed(n.loc) # {} THEN {}
                            ELSE changed_read
        /\ tick_clean' = (pc = "loop" \/ tick_clean)
        /\ stable_since' = IF pc = "ui_isl"
                           THEN [i \in 0..(NUM_DIGITAL_INPUTS - 1) |->
                                    IF i \in Committed(loc) THEN now ELSE stable_since[i]]
                           ELSE stable_since
        /\ published' = IF pc = "ue_d"
                        THEN published + ToI8(n.registers[REG_ENCODER_DELTA])
                        ELSE published
        /\ after_reset' = IF pc # "loop" THEN after_reset
                          ELSE IF after_reset = "armed" THEN "ticking" ELSE "none"
        /\ UNCHANGED <<pin_hist, toggles, isr_sum>>
        /\ UNCHANGED <<current_register, encoder_position, encoder_state, envvars,
                       txn_reads, reset_clean, nops>>

\* delay(1) of loop(), d times over while no tick is due.
Delay(d, maxTime) ==
    /\ pc = "loop"
    /\ ~TickDue
    /\ now + d <= maxTime
    /\ now' = now + d
    /\ last' = [NoOp EXCEPT !.op = "delay"]
    /\ rt' = NoWrite
    /\ UNCHANGED <<bankvars, inputvars, encvars, mainvars, pin_inputs, pin_button,
                   txn_reads, captured, reset_clean, d_tick, d_sampled, d_ok,
                   d_sampled_ok, pos_at_sample, d_unread, edges, nops>>
    /\ UNCHANGED <<hist2vars, hist3vars>>

(***************************************************************************)
(* The pins.  A contact input or the encoder button changes level.         *)
(***************************************************************************)
\* Input pin i changes level.
InputChange(i, maxToggles) ==
    /\ toggles < maxToggles
    /\ toggles' = toggles + 1
    /\ pin_inputs' = IF BitAt(pin_inputs, i) = 1 THEN pin_inputs - 2 ^ i
                      ELSE pin_inputs + 2 ^ i
    /\ pin_hist' = [pin_hist EXCEPT ![i] = [n |-> @.n + 1, t |-> now]]
    /\ last' = [NoOp EXCEPT !.op = "pin"]
    /\ rt' = NoWrite
    /\ UNCHANGED <<bankvars, inputvars, encvars, mainvars, now, pin_button,
                   txn_reads, captured, reset_clean, d_tick, d_sampled, d_ok,
                   d_sampled_ok, pos_at_sample, d_unread, edges, nops,
                   owed1, owed2, missed, changed_read, tick_clean>>
    /\ after_reset' = "none"
    /\ UNCHANGED <<stable_since, isr_sum, published>>

\* The encoder button pin changes level.
ButtonChange(maxToggles) ==
    /\ toggles < maxToggles
    /\ toggles' = toggles + 1
    /\ pin_button' = 1 - pin_button
    /\ last' = [NoOp EXCEPT !.op = "button"]
    /\ rt' = NoWrite
    /\ UNCHANGED <<bankvars, inputvars, encvars, mainvars, now, pin_inputs,
                   txn_reads, captured, reset_clean, d_tick, d_sampled, d_ok,
                   d_sampled_ok, pos_at_sample, d_unread, edges, nops,
                   pin_hist, owed1, owed2, missed, changed_read, tick_clean>>
    /\ after_reset' = "none"
    /\ UNCHANGED <<stable_since, isr_sum, published>>

(***************************************************************************)
(* Specification Spec: the host exercising the register protocol while the *)
(* main loop runs its first tick.  The host may be served between any two  *)
(* statements of the main loop.                                            *)
(***************************************************************************)
MaxReads == 2
MaxOps == 3

\* What the host sends: nothing, a pointer, or a pointer and one data byte.
HostPointers == {0, 4, REG_CONTROL, REG_ERROR, REG_INPUT_CHANGED_LOW, 128,
                 REG_COMMAND, 255}
HostData ==
    {<<0, 171>>, <<1, 0>>, <<2, 1>>, <<3, 255>>, <<4, 171>>,
     <<REG_CONTROL, 6>>, <<REG_CONTROL, 249>>,
     <<REG_ERROR, 0>>, <<REG_INPUT_CHANGED_LOW, 5>>, <<REG_CONFIG_VU_FREQ, 0>>,
     <<127, 85>>, <<128, 1>>, <<255, 1>>,
     <<REG_COMMAND, CMD_NOP>>, <<REG_COMMAND, CMD_RESET>>,
     <<REG_COMMAND, CMD_FACTORY_RESET>>, <<REG_COMMAND, CMD_CALIBRATE_VU>>,
     <<REG_COMMAND, CMD_TEST_VU_BOTH>>, <<REG_COMMAND, CMD_TEST_ALL>>,
     <<REG_COMMAND, 119>>}
HostWrites == {<<>>} \cup {<<a>> : a \in HostPointers} \cup HostData

Next ==
    \/ \E bytes \in HostWrites : HostReceive(bytes, MaxOps)
    \/ HostRequest(MaxReads, MaxOps)
    \/ HostStop
    \/ MainStep

Spec == Init /\ [][Next]_vars

(***************************************************************************)
(* Specification SpecEnc: the encoder path.  Edges interrupt anywhere, the *)
(* host resets the encoder and reads the encoder registers, and both may   *)
(* come between any two statements of the main loop.                       *)
(***************************************************************************)
MaxTimeEnc == 1010
MaxReadsEnc == 2
MaxOpsEnc == 3
MaxEdgesEnc == 1

EncWrites ==
    {<<REG_CONTROL, CTRL_ENABLE + CTRL_RESET_ENCODER>>,
     <<REG_ENCODER_POS_LOW>>, <<REG_ENCODER_DELTA>>}

NextEnc ==
    \/ \E bytes \in EncWrites : HostReceive(bytes, MaxOpsEnc)
    \/ HostRequest(MaxReadsEnc, MaxOpsEnc)
    \/ HostStop
    \/ \E new_state \in 0..3 : EncoderEdge(new_state, MaxEdgesEnc)
    \/ MainStep
    \/ Delay(TICK_MS, MaxTimeEnc)

SpecEnc == Init /\ [][NextEnc]_vars

(***************************************************************************)
(* Specification SpecSat: the knob spun fast.  Up to MaxEdgesSat edges     *)
(* arrive while the loop waits for its second tick; no host traffic.       *)
(***************************************************************************)
MaxTimeSat == 1010
MaxEdgesSat == 129

\* The loop has run its first tick and waits for the second.
AwaitingSecondTick == pc = "loop" /\ last_update = BOOT_DELAY_MS

NextSat ==
    \/ /\ AwaitingSecondTick
       /\ \E new_state \in 0..3 : EncoderEdge(new_state, MaxEdgesSat)
    \/ MainStep
    \/ Delay(TICK_MS, MaxTimeSat)

SpecSat == Init /\ [][NextSat]_vars

(***************************************************************************)
(* Specification SpecIn: the change flags of the contact inputs.  Pins     *)
(* change and the host reads and clears the INPUT_CHANGED registers,       *)
(* between any two statements of the first tick.                           *)
(***************************************************************************)
MaxReadsIn == 2
MaxOpsIn == 4
MaxTogglesIn == 2

InChannels == {0, 9}
InWrites ==
    {<<REG_INPUT_CHANGED_LOW>>, <<REG_CONTROL, CTRL_ENABLE + CTRL_CLEAR_INPUTS>>}

NextIn ==
    \/ \E bytes \in InWrites : HostReceive(bytes, MaxOpsIn)
    \/ HostRequest(MaxReadsIn, MaxOpsIn)
    \/ HostStop
    \/ \E i \in InChannels : InputChange(i, MaxTogglesIn)
    \/ MainStep

SpecIn == Init /\ [][NextIn]_vars

(***************************************************************************)
(* Specification SpecDeb: debouncing over several ticks.  Input 1 changes, *)
(* the host rewrites CONFIG_DEBOUNCE and reads INPUT_STATUS.               *)
(***************************************************************************)
MaxTimeDeb == 1050
MaxReadsDeb == 1
MaxOpsDeb == 2
MaxTogglesDeb == 2
DebounceWritten == 100

DebChannels == {0}
DebWrites == {<<REG_INPUT_STATUS_LOW>>, <<REG_CONFIG_DEBOUNCE, DebounceWritten>>}

NextDeb ==
    \/ \E bytes \in DebWrites : HostReceive(bytes, MaxOpsDeb)
    \/ HostRequest(MaxReadsDeb, MaxOpsDeb)
    \/ HostStop
    \/ \E i \in DebChannels : InputChange(i, MaxTogglesDeb)
    \/ MainStep
    \/ Delay(TICK_MS, MaxTimeDeb)

SpecDeb == Init /\ [][NextDeb]_vars

(***************************************************************************)
(* Specification SpecBtn: the encoder button and STATUS.  The button is    *)
(* pressed and released while the host rewrites STATUS or issues the soft  *)
(* reset, between any two statements of two ticks.                         *)
(***************************************************************************)
MaxTimeBtn == 1010
MaxOpsBtn == 1
MaxTogglesBtn == 2

BtnWrites == {<<REG_STATUS, 0>>, <<REG_COMMAND, CMD_RESET>>}

NextBtn ==
    \/ \E bytes \in BtnWrites : HostReceive(bytes, MaxOpsBtn)
    \/ ButtonChange(MaxTogglesBtn)
    \/ MainStep
    \/ Delay(TICK_MS, MaxTimeBtn)

SpecBtn == Init /\ [][NextBtn]_vars

(***************************************************************************)
(* Specification SpecHold: the encoder button over a long hold.  The       *)
(* button is pressed, released and pressed again within the first ticks,   *)
(* then kept down past the hold time; the host is silent.                  *)
(***************************************************************************)
MaxTimeHold == 2030
MaxTogglesHold == 3
LastToggleHold == 1020

NextHold ==
    \/ (now <= LastToggleHold /\ ButtonChange(MaxTogglesHold))
    \/ MainStep
    \/ Delay(TICK_MS, MaxTimeHold)

SpecHold == Init /\ [][NextHold]_vars

(***************************************************************************)
(* Specification SpecOut: the output engine.  The host configures the      *)
(* outputs (gates, modes, levels, tape direction) before, between and in   *)
(* the middle of two ticks.                                                *)
(***************************************************************************)
MaxTimeOut == 1010
MaxOpsOut == 3

OutGates == CTRL_VU_ENABLE + CTRL_BACKLIGHT_ENABLE + CTRL_TAPE_ENABLE
OutWrites ==
    {<<REG_CONTROL, OutGates>>, <<REG_CONTROL, CTRL_ENABLE>>,
     <<REG_VU_LEFT, 200, 100>>, <<REG_VU_MODE, VU_MODE_OFF>>,
     <<REG_BACKLIGHT, 77, BACKLIGHT_MODE_OFF>>,
     <<REG_TAPE_SPEED, 90, TAPE_DIR_FORWARD>>, <<REG_TAPE_SPEED, 90, TAPE_DIR_REVERSE>>,
     <<REG_TAPE_DIRECTION, TAPE_DIR_BRAKE>>, <<REG_TAPE_DIRECTION, 9>>,
     <<REG_TAPE_MODE, TAPE_MODE_OFF>>}

NextOut ==
    \/ \E bytes \in OutWrites : HostReceive(bytes, MaxOpsOut)
    \/ MainStep
    \/ Delay(TICK_MS, MaxTimeOut)

SpecOut == Init /\ [][NextOut]_vars

(***************************************************************************)
(* Specification SpecBus: write transactions of several bytes and read     *)
(* transactions of up to four, served between any two statements of the    *)
(* first tick.  They run into read-only, out-of-range and command          *)
(* addresses and past the end of the address space.                        *)
(***************************************************************************)
MaxOpsBus == 5
MaxReadsBus == 4

BusWrites ==
    {<<>>, <<0>>, <<254>>, <<3, 9, 7>>, <<253, 1, 2, 3>>, <<254, 1, 2, 3>>,
     <<126, 5, 6, 7>>,
     <<REG_COMMAND - 1, 1, CMD_RESET, 4>>, <<REG_CONTROL, CTRL_ENABLE, 0, 0>>}

NextBus ==
    \/ \E bytes \in BusWrites : HostReceive(bytes, MaxOpsBus)
    \/ HostRequest(MaxReadsBus, MaxOpsBus)
    \/ HostStop
    \/ MainStep

SpecBus == Init /\ [][NextBus]_vars

(***************************************************************************)
(* Specification SpecLong: write transactions of 2, 32 and 33 bytes to the *)
(* VU registers and the reserved bytes after them, served between any two  *)
(* statements of the first tick.                                           *)
(***************************************************************************)
MaxOpsLong == 2

\* The pointer REG_VU_LEFT followed by the data bytes 1..n.
LongWrite(n) == <<REG_VU_LEFT>> \o [k \in 1..n |-> k]
LongWrites == {LongWrite(1), LongWrite(I2C_BUFFER_SIZE - 1), LongWrite(I2C_BUFFER_SIZE)}

NextLong ==
    \/ \E onBus \in LongWrites : HostReceiveLong(onBus, MaxOpsLong)
    \/ MainStep

SpecLong == Init /\ [][NextLong]_vars

(***************************************************************************)
(* Specification SpecChan: the debounce of input channels 0 and 9 over six *)
(* ticks, the pins changing between any two statements; the host is        *)
(* silent.                                                                 *)
(***************************************************************************)
MaxTimeChan == 1050
MaxTogglesChan == 3

ChanChannels == {0, 9}

NextChan ==
    \/ \E i \in ChanChannels : InputChange(i, MaxTogglesChan)
    \/ MainStep
    \/ Delay(TICK_MS, MaxTimeChan)

SpecChan == Init /\ [][NextChan]_vars

(***************************************************************************)
(* Specification SpecCons: encoder edges in both directions, up to three   *)
(* between two samples, falling between any two statements of three ticks; *)
(* the host is silent.                                                     *)
(***************************************************************************)
MaxTimeCons == 1020
MaxEdgesCons == 3

NextCons ==
    \/ \E new_state \in 0..3 : EncoderEdge(new_state, MaxEdgesCons)
    \/ MainStep
    \/ Delay(TICK_MS, MaxTimeCons)

SpecCons == Init /\ [][NextCons]_vars

(***************************************************************************)
(* Properties.  A transaction of one data byte is a write(a, v).           *)
(***************************************************************************)
IsWrite(l) == l.op = "receive" /\ Len(l.bytes) = 2
WAddr(l) == l.bytes[1]
WValue(l) == l.bytes[2]
WOk(l) == l.oks[1]
IsRead(l) == l.op = "request"
IsSoftReset(l) == IsWrite(l) /\ WAddr(l) = 240 /\ WValue(l) = 1
\* No bit of byte new that is not in byte old.
NoNewBits(old, new) == BitAnd(new, old) = new
\* Every bit of byte old is still in byte new.
KeepsBits(old, new) == BitAnd(new, old) = old

\* C1: a write to an address in 0x00..0x03 is rejected, leaves that bank byte
\* unchanged and sets ERROR.INVALID_REG (bit 1 of 0x12); the identity bytes
\* are 0x52, 1, 0, 0 in every reachable state.
C1_ReadOnlyIdentity ==
    [][/\ registers'[0] = 82 /\ registers'[1] = 1
       /\ registers'[2] = 0 /\ registers'[3] = 0
       /\ (IsWrite(last') /\ WAddr(last') \in 0..3) =>
              /\ ~WOk(last')
              /\ registers'[WAddr(last')] = registers[WAddr(last')]
              /\ BitAt(registers'[18], 1) = 1]_vars

\* C1 witness: the host has just written 0xFF to address 0x03.
C1_Witness ==
    IsWrite(last) /\ WAddr(last) = 3 /\ WValue(last) = 255 /\ registers[3] = 0

\* C2 as stated: for every address in 0x80..0xFF a read returns 0xFF and
\* sets ERROR.INVALID_REG, and a write is rejected, sets ERROR.INVALID_REG
\* and changes no bank byte other than ERROR.
C2_Original ==
    [][/\ (IsRead(last') /\ last'.addr >= 128) =>
              last'.value = 255 /\ BitAt(registers'[18], 1) = 1
       /\ (IsWrite(last') /\ WAddr(last') >= 128) =>
              /\ ~WOk(last')
              /\ BitAt(registers'[18], 1) = 1
              /\ \A b \in BankAddr \ {18} : registers'[b] = registers[b]]_vars

\* C2 amended: the same, for writes to every address in 0x80..0xFF other
\* than the command port 0xF0.
C2_Amended ==
    [][/\ (IsRead(last') /\ last'.addr >= 128) =>
              last'.value = 255 /\ BitAt(registers'[18], 1) = 1
       /\ (IsWrite(last') /\ WAddr(last') >= 128 /\ WAddr(last') # 240) =>
              /\ ~WOk(last')
              /\ BitAt(registers'[18], 1) = 1
              /\ \A b \in BankAddr \ {18} : registers'[b] = registers[b]]_vars

\* C2 witness: a read at 0xFF has returned 0xFF after a rejected write to 0x80.
C2_Witness ==
    /\ IsRead(last) /\ last.addr = 255 /\ last.value = 255
    /\ BitAt(registers[18], 1) = 1
    /\ current_register = 0

\* C3 as stated: the ten named commands written to 0xF0 return ok and set no
\* ERROR bit; every other command byte fails and sets ERROR.INVALID_CMD.
C3_CommandDispatch ==
    [][(IsWrite(last') /\ WAddr(last') = 240) =>
           IF WValue(last') \in {0, 1, 2, 16, 17, 18, 19, 32, 48, 255}
           THEN WOk(last') /\ NoNewBits(registers[18], registers'[18])
           ELSE ~WOk(last') /\ BitAt(registers'[18], 2) = 1]_vars

\* C4 as stated: no step other than a soft reset clears a bit of ERROR, and
\* after a soft reset ERROR is 0.
C4_ErrorSticky ==
    [][IF IsSoftReset(last')
       THEN registers'[18] = 0
       ELSE KeepsBits(registers[18], registers'[18])]_vars

\* The power-up image as claim C5 lists it.
C5_ListedImage ==
    [a \in 0..127 |->
        CASE a = 0 -> 82
          [] a = 1 -> 1
          [] a = 16 -> 1      \* CONTROL = ENABLE
          [] a = 17 -> 1      \* STATUS = READY
          [] a = 48 -> 128    \* BACKLIGHT
          [] a = 80 -> 255    \* INPUT_STATUS low
          [] a = 81 -> 15     \* INPUT_STATUS high
          [] a = 113 -> 50    \* CONFIG_DEBOUNCE
          [] OTHER -> 0]

\* C5 as stated: right after a soft reset the bank equals the listed image,
\* and a second soft reset right after leaves the bank identical.
C5_Original ==
    [][IsSoftReset(last') =>
           /\ registers' = C5_ListedImage
           /\ IsSoftReset(last) => registers' = registers]_vars

\* C5 amended: the same, with CONFIG_VU_FREQ (0x70) = 1 added to the image.
C5_Amended ==
    [][IsSoftReset(last') =>
           /\ registers' = [C5_ListedImage EXCEPT ![112] = 1]
           /\ IsSoftReset(last) => registers' = registers]_vars

\* C5 witness: a second soft reset in a row, taken in the middle of a tick,
\* after the host had changed the bank.
C5_Witness ==
    /\ IsSoftReset(last) /\ nops = 3 /\ pc = "ue_ph"
    /\ registers = [C5_ListedImage EXCEPT ![112] = 1]

\* C6 as stated: write(a, v) to a in 0x04..0x7F followed at once by read(a)
\* returns v.
C6_Original ==
    (IsRead(last) /\ last.expect # -1 /\ last.addr \in 4..127) =>
        last.value = last.expect

\* C6 amended: the read returns v, except at CONTROL (0x10), where it returns
\* v with the self-clearing bits RESET_ENCODER and CLEAR_INPUTS cleared.
C6_Amended ==
    (IsRead(last) /\ last.expect # -1 /\ last.addr \in 4..127) =>
        last.value = IF last.addr = 16
                     THEN last.expect - 2 * BitAt(last.expect, 1)
                                      - 4 * BitAt(last.expect, 2)
                     ELSE last.expect

\* C6 witness: 5 written to the auto-clear register INPUT_CHANGED_LOW (0x52) has
\* been read back as 5 by the first read, which cleared the register.
C6_Witness ==
    /\ IsRead(last) /\ last.addr = 82 /\ last.expect = 5 /\ last.value = 5
    /\ registers[82] = 0

\* C7 as stated: after a host write to CONTROL with RESET_ENCODER set, and
\* with no encoder edge since, the next host read of each of 0x60, 0x61 and
\* 0x62 returns 0, wherever in the tick the write came; and the write leaves
\* bit 1 of the stored CONTROL byte clear.
C7_ResetBeforeReport ==
    [][/\ (IsRead(last') /\ last'.addr \in reset_clean) => last'.value = 0
       /\ (IsWrite(last') /\ WAddr(last') = 16 /\ BitAt(WValue(last'), 1) = 1) =>
              BitAt(registers'[16], 1) = 0]_vars

\* The signed 16-bit value of two bytes, low first.
Word16(lo, hi) == ToI16(lo + 256 * hi)

\* C8 as stated: 0x60 then 0x61 read in one transaction give a 16-bit value
\* that update_encoder sampled at one tick (or the 0 of power-up).
C8_PositionNotTorn ==
    \A i \in 1..(Len(txn_reads) - 1) :
        (txn_reads[i].addr = 96 /\ txn_reads[i + 1].addr = 97) =>
            Word16(txn_reads[i].value, txn_reads[i + 1].value) \in captured

\* d clamped to the int8_t range.
Clamp8(d) == IF d > 127 THEN 127 ELSE IF d < -128 THEN -128 ELSE d

\* C9 as stated: when the second or a later tick publishes ENCODER_DELTA,
\* after edges of net displacement d since the tick before (and no encoder
\* reset in between), the byte published is d clamped to [-128, 127], and the
\* position sampled has advanced by d modulo 2^16.
C9_DeltaSaturates ==
    [][(pc = "ue_d" /\ pc' # "ue_d" /\ last_update > BOOT_DELAY_MS /\ d_sampled_ok) =>
           /\ ToI8(registers'[98]) = Clamp8(d_sampled)
           /\ pos_at_sample[2] = ToI16(pos_at_sample[1] + d_sampled)]_vars

\* C10 as stated: a host read of ENCODER_DELTA returns the steps published
\* since the previous host read of it, over any number of ticks, and so 0
\* when nothing was published since.
C10_DeltaSinceLastRead ==
    [][(IsRead(last') /\ last'.addr = 98) => ToI8(last'.value) = d_unread]_vars

\* Bit 5 of STATUS, and whether either INPUT_CHANGED register is non-zero.
InputChangedFlag(regs) == BitAt(regs[17], 5) = 1
AnyChangedBit(regs) == regs[82] # 0 \/ regs[83] # 0

\* C11 as stated: whenever no tick is in progress, STATUS.INPUT_CHANGED is
\* set if and only if INPUT_CHANGED_LOW or INPUT_CHANGED_HIGH is non-zero.
C11_ChangedFlagIff ==
    pc = "loop" => (InputChangedFlag(registers) <=> AnyChangedBit(registers))

\* C12 as stated: once the host has read both INPUT_CHANGED registers, with
\* no input transition committed (and no host write) since the first of the
\* two reads, both registers are 0 and STATUS.INPUT_CHANGED is 0; and a read
\* of one of them while the other is non-zero leaves STATUS.INPUT_CHANGED set.
C12_ReadBothClears ==
    [][/\ changed_read' = ChangedRegs =>
              ~AnyChangedBit(registers') /\ ~InputChangedFlag(registers')
       /\ (/\ IsRead(last') /\ last'.addr \in ChangedRegs
           /\ registers[165 - last'.addr] # 0
           /\ InputChangedFlag(registers)) => InputChangedFlag(registers')]_vars


C14_DebouncedStatus ==
    (IsRead(last) /\ last.addr = 80) =>
        \A i \in 0..7 :
            pin_hist[i].n = 1 =>
                /\ now < pin_hist[i].t + INPUT_DEBOUNCE_MS => BitAt(last.value, i) = 1
                /\ now > pin_hist[i].t + INPUT_DEBOUNCE_MS + TICK_MS =>
                       BitAt(last.value, i) = 0

\* C15 as stated: at the scan of a tick, with w the byte stored in
\* CONFIG_DEBOUNCE (0x71), the stable bit of a channel is committed only when
\* now - last_change[i] >= w, and is committed when the pin differs from the
\* stable bit and now - last_change[i] >= w.
C15_ConfiguredWindow ==
    [][(pc = "ui_scan" /\ pc' # "ui_scan") =>
           \A i \in 0..(NUM_DIGITAL_INPUTS - 1) :
               LET elapsed == now - input_last_change[i]
                   differs == BitAt(pin_inputs, i) # StableBit(MainView, i)
               IN  /\ i \in Committed(loc') => elapsed >= registers[113]
                   /\ (differs /\ elapsed >= registers[113]) => i \in Committed(loc')]_vars

\* A tick has just run to its end.
TickCompleted == pc = "loop" /\ last.op = "main"

\* C17 as stated: when a tick has just completed (here: one the host did not
\* write into), STATUS.BUTTON_PRESSED (bit 7) is 1 exactly when the published
\* ENCODER_BUTTON (0x63) is PRESSED, HELD or DOUBLE_CLICK, whatever the host
\* wrote before the tick.
C17_ButtonFlagMirrors ==
    (TickCompleted /\ tick_clean) =>
        (BitAt(registers[17], 7) = 1 <=> registers[99] \in {1, 2, 3})


\* C16 as stated: while the button is down on a press that came less than
\* 300 ms after the previous release, ENCODER_BUTTON reads DOUBLE_CLICK (3)
\* after every completed tick up to 1000 ms from that press, and HELD (2)
\* after every completed tick later than 1000 ms from it.
C16_DoubleClickThenHeld ==
    (/\ TickCompleted
     /\ pin_button = 0
     /\ encoder_button_state # ENC_BTN_RELEASED
     /\ encoder_button_last_release > 0
     /\ encoder_button_press_time - encoder_button_last_release < DOUBLE_CLICK_MS) =>
        /\ registers[REG_ENCODER_BUTTON] # ENC_BTN_RELEASED
        /\ now - encoder_button_press_time < HOLD_MS =>
               registers[REG_ENCODER_BUTTON] = ENC_BTN_DOUBLE_CLICK
        /\ now - encoder_button_press_time > HOLD_MS =>
               registers[REG_ENCODER_BUTTON] = ENC_BTN_HELD


\* The duties and status bits C18 states for a bank: each output is gated by
\* its own CONTROL bit and its mode register, never by CONTROL.ENABLE.
VuOn(regs) == HasBit(regs[REG_CONTROL], CTRL_VU_ENABLE) /\ regs[REG_VU_MODE] # VU_MODE_OFF
BacklightOn(regs) ==
    HasBit(regs[REG_CONTROL], CTRL_BACKLIGHT_ENABLE)
        /\ regs[REG_BACKLIGHT_MODE] # BACKLIGHT_MODE_OFF
TapeOn(regs) == HasBit(regs[REG_CONTROL], CTRL_TAPE_ENABLE) /\ regs[REG_TAPE_MODE] # TAPE_MODE_OFF
TapeDuties(regs) ==
    IF ~TapeOn(regs) THEN <<0, 0>>
    ELSE IF regs[REG_TAPE_DIRECTION] = TAPE_DIR_FORWARD THEN <<regs[REG_TAPE_SPEED], 0>>
    ELSE IF regs[REG_TAPE_DIRECTION] = TAPE_DIR_REVERSE THEN <<0, regs[REG_TAPE_SPEED]>>
    ELSE IF regs[REG_TAPE_DIRECTION] = TAPE_DIR_BRAKE THEN <<PWM_MAX, PWM_MAX>>
    ELSE <<0, 0>>
TapeRuns(regs) ==
    TapeOn(regs) /\ regs[REG_TAPE_DIRECTION] \in {TAPE_DIR_FORWARD, TAPE_DIR_REVERSE}
StatedDuties(regs) ==
    [p \in PwmPins |->
        CASE p = "VU_LEFT_IN1" -> IF VuOn(regs) THEN regs[REG_VU_LEFT] ELSE 0
          [] p = "VU_RIGHT_IN1" -> IF VuOn(regs) THEN regs[REG_VU_RIGHT] ELSE 0
          [] p = "BACKLIGHT_IN1" -> IF BacklightOn(regs) THEN regs[REG_BACKLIGHT] ELSE 0
          [] p = "TAPE_MOTOR_IN1" -> TapeDuties(regs)[1]
          [] p = "TAPE_MOTOR_IN2" -> TapeDuties(regs)[2]
          [] OTHER -> 0]

\* C18: when a tick the host did not write into has just completed, the
\* eight PWM duties are StatedDuties of the bank, and STATUS.VU_ACTIVE,
\* STATUS.BACKLIGHT_ON and STATUS.TAPE_RUNNING are the three gate decisions,
\* whatever CONTROL.ENABLE is.
C18_OutputsFollowBank ==
    (TickCompleted /\ tick_clean) =>
        /\ pwm = StatedDuties(registers)
        /\ HasBit(registers[REG_STATUS], STATUS_VU_ACTIVE) <=> VuOn(registers)
        /\ HasBit(registers[REG_STATUS], STATUS_BACKLIGHT_ON) <=> BacklightOn(registers)
        /\ HasBit(registers[REG_STATUS], STATUS_TAPE_RUNNING) <=> TapeRuns(registers)

\* A second tick has completed with CONTROL.ENABLE clear: the VU meters show
\* the written levels, the backlight is lit, the tape motor brakes.
C18_Witness ==
    /\ TickCompleted
    /\ tick_clean
    /\ last_update > BOOT_DELAY_MS
    /\ ~HasBit(registers[REG_CONTROL], CTRL_ENABLE)
    /\ pwm["VU_LEFT_IN1"] = 200
    /\ pwm["VU_RIGHT_IN1"] = 100
    /\ pwm["TAPE_MOTOR_IN1"] = PWM_MAX
    /\ pwm["TAPE_MOTOR_IN2"] = PWM_MAX
    /\ registers[REG_STATUS] = STATUS_READY + STATUS_VU_ACTIVE + STATUS_BACKLIGHT_ON


\* The bank and the encoder counters after data bytes 0..k-1 of a write
\* transaction, applied in bus order: byte j goes to (REG + j) mod 256.
RECURSIVE InBusOrder(_, _, _)
InBusOrder(st, bytes, k) ==
    IF k = 0 THEN [st EXCEPT !.oks = <<>>]
    ELSE LET before == InBusOrder(st, bytes, k - 1)
             w == i2c_register_write(before, (bytes[1] + (k - 1)) % 256, bytes[k + 1])
         IN  [registers |-> w.registers,
              encoder_position |-> w.encoder_position,
              encoder_delta |-> w.encoder_delta,
              oks |-> Append(before.oks, w.ok)]

\* C19: a write transaction of N bytes.  N = 0 changes neither the bank nor
\* the pointer.  Otherwise every one of the N-1 data bytes is applied, byte
\* k as write((REG + k) mod 256, Bk) in bus order, accepted or not, and the
\* pointer ends at (REG + N - 1) mod 256.
C19_WriteTransaction ==
    [][last'.op = "receive" =>
        LET bytes == last'.bytes
            N == Len(bytes)
            applied == InBusOrder([registers |-> registers,
                                   encoder_position |-> encoder_position,
                                   encoder_delta |-> encoder_delta,
                                   oks |-> <<>>], bytes, N - 1)
        IN  IF N = 0
            THEN UNCHANGED <<registers, current_register, encoder_position, encoder_delta>>
            ELSE /\ current_register' = (bytes[1] + N - 1) % 256
                 /\ last'.oks = applied.oks
                 /\ Len(last'.oks) = N - 1
                 /\ registers' = applied.registers
                 /\ encoder_position' = applied.encoder_position
                 /\ encoder_delta' = applied.encoder_delta]_vars

\* The transaction [3, 9, 7] has been served: the byte for the read-only
\* register 3 was rejected, the byte after it reached register 4, and the
\* pointer is at 5.
C19_Witness ==
    /\ last.op = "receive"
    /\ last.bytes = <<3, 9, 7>>
    /\ last.oks = <<FALSE, TRUE>>
    /\ registers[4] = 7
    /\ HasBit(registers[REG_ERROR], ERROR_INVALID_REG)
    /\ current_register = 5


\* C20: the pointer changes only when a write transaction carries at least
\* one byte or a byte is read; each byte read is the register at the pointer
\* (0xFF from 0x80 on), after which the pointer is one further, modulo 256;
\* and a read transaction of four bytes that starts at pointer 0 returns the
\* identity 0x52, 0x01, 0x00, 0x00 and leaves the pointer at 4.
C20_ReadTransaction ==
    [][/\ last'.op = "request" =>
            /\ last'.addr = current_register
            /\ last'.value = IF current_register >= 128 THEN 255
                             ELSE registers[current_register]
            /\ current_register' = (current_register + 1) % 256
       /\ (last'.op # "request" /\ ~(last'.op = "receive" /\ Len(last'.bytes) >= 1)) =>
            current_register' = current_register
       /\ (Len(txn_reads') = 4 /\ txn_reads'[1].addr = 0) =>
            /\ [k \in 1..4 |-> txn_reads'[k].value] = <<82, 1, 0, 0>>
            /\ current_register' = 4]_vars

\* In the middle of a tick, after a write transaction of rejected bytes has
\* left the pointer at 0, the fourth byte of a read transaction has just been
\* returned.
C20_Witness ==
    /\ last.op = "request"
    /\ HasBit(registers[REG_ERROR], ERROR_INVALID_REG)
    /\ pc \in PwmPcs
    /\ Len(txn_reads) = 4
    /\ [k \in 1..4 |-> txn_reads[k].addr] = <<0, 1, 2, 3>>
    /\ [k \in 1..4 |-> txn_reads[k].value] = <<82, 1, 0, 0>>
    /\ current_register = 4


\* C21 as stated: when a tick has just completed (here: one the host did not
\* write into), STATUS.ERROR (bit 1 of 0x11) is 1 exactly when ERROR (0x12)
\* is non-zero.
C21_StatusErrorIsOr ==
    (TickCompleted /\ tick_clean) =>
        (HasBit(registers[REG_STATUS], STATUS_ERROR) <=> registers[REG_ERROR] # 0)


\* C22 as stated: a write transaction of more than 32 bytes on the bus sets
\* ERROR.I2C_OVERFLOW and leaves the bank, ERROR aside, as its first 32
\* bytes applied in bus order leave it; a transaction of at most 32 bytes
\* does not set ERROR.I2C_OVERFLOW.
C22_Overflow ==
    [][last'.op = "receive" =>
        LET onBus == last'.sent
            fits == SubSeq(onBus, 1, I2C_BUFFER_SIZE)
            applied == InBusOrder([registers |-> registers,
                                   encoder_position |-> encoder_position,
                                   encoder_delta |-> encoder_delta,
                                   oks |-> <<>>], fits, Len(fits) - 1)
        IN  IF Len(onBus) > I2C_BUFFER_SIZE
            THEN /\ HasBit(registers'[REG_ERROR], ERROR_I2C_OVERFLOW)
                 /\ \A a \in (0..127) \ {REG_ERROR} :
                        registers'[a] = applied.registers[a]
            ELSE HasBit(registers'[REG_ERROR], ERROR_I2C_OVERFLOW) =>
                     HasBit(registers[REG_ERROR], ERROR_I2C_OVERFLOW)]_vars


\* The addresses of the bank that I2CRegisterBank assigns to a named
\* register, and the reserved ones between them.
NamedRegs ==
    {REG_DEVICE_ID, REG_FIRMWARE_VER_MAJ, REG_FIRMWARE_VER_MIN, REG_FIRMWARE_VER_PATCH,
     REG_CONTROL, REG_STATUS, REG_ERROR, REG_VU_LEFT, REG_VU_RIGHT, REG_VU_MODE,
     REG_BACKLIGHT, REG_BACKLIGHT_MODE, REG_TAPE_SPEED, REG_TAPE_DIRECTION, REG_TAPE_MODE,
     REG_INPUT_STATUS_LOW, REG_INPUT_STATUS_HIGH, REG_INPUT_CHANGED_LOW,
     REG_INPUT_CHANGED_HIGH, REG_ENCODER_POS_LOW, REG_ENCODER_POS_HIGH,
     REG_ENCODER_DELTA, REG_ENCODER_BUTTON, REG_CONFIG_VU_FREQ, REG_CONFIG_DEBOUNCE,
     REG_CONFIG_OPTIONS}
ReservedRegs == (0..127) \ NamedRegs

\* C23 as stated: every read of a reserved address in 0x00..0x7F returns 0,
\* also after the host wrote a non-zero byte there, and every write to one
\* is accepted and leaves ERROR as it was.
C23_ReservedReadZero ==
    [][/\ (IsRead(last') /\ last'.addr \in ReservedRegs) => last'.value = 0
       /\ (IsWrite(last') /\ WAddr(last') \in ReservedRegs) =>
              (WOk(last') /\ registers'[REG_ERROR] = registers[REG_ERROR])]_vars


\* The step in which update_inputs scans the twelve pins.
IsScan == pc = "ui_scan" /\ last'.op = "main"

\* The stable bit of channel i.
StableLevel(i) ==
    IF i < 8 THEN BitAt(input_state_low, i) ELSE BitAt(input_state_high, i - 8)

\* C24 as stated: at every scan and for every channel i, last_change[i] is
\* updated only if the scan changes the stable bit of i, and if i has been
\* stable for at least INPUT_DEBOUNCE_MS and its raw level differs from its
\* stable bit, the scan commits the new level.
C24_CommitRule ==
    [][IsScan =>
        \A i \in 0..(NUM_DIGITAL_INPUTS - 1) :
            /\ input_last_change'[i] # input_last_change[i] => i \in Committed(loc')
            /\ (/\ now - stable_since[i] >= INPUT_DEBOUNCE_MS
                /\ PinLevel(i) # StableLevel(i)) => i \in Committed(loc')]_vars


\* C25: with no RESET_ENCODER write and the accumulator inside the int8_t
\* range, the deltas published to ENCODER_DELTA so far, the delta a tick has
\* sampled and not yet stored, and the accumulator add up to the sum of the
\* deltas encoder_isr counted, and encoder_position is that sum modulo 2^16.
C25_StepsConserved ==
    /\ published + loc.delta + encoder_delta = isr_sum
    /\ encoder_position = ToI16(isr_sum)
    /\ pc = "loop" => published + encoder_delta = isr_sum

\* Three ticks have run; steps were published by two of them (+2, then -1)
\* and one more step waits in the accumulator.
C25_Witness ==
    /\ TickCompleted
    /\ now = MaxTimeCons
    /\ published = 1
    /\ registers[REG_ENCODER_DELTA] = 255
    /\ encoder_delta = 1
    /\ isr_sum = 2
    /\ encoder_position = 2


\* C26: a scan changes the stable bit of channel i only if the millisecond
\* clock is at INPUT_DEBOUNCE_MS or later and the previous change of that bit
\* is at least INPUT_DEBOUNCE_MS back; the tick adds to INPUT_CHANGED_* only
\* channels its scan changed, and stores to INPUT_STATUS_* the stable
\* bitmaps.
C26_ChangesSpaced ==
    [][/\ IsScan =>
            \A i \in Committed(loc') :
                /\ now >= INPUT_DEBOUNCE_MS
                /\ now - stable_since[i] >= INPUT_DEBOUNCE_MS
       /\ (last'.op = "main" /\ pc # "ui_scan") =>
            /\ \A r \in ChangedRegs :
                   ChannelsIn(r, registers'[r]) \subseteq
                       (ChannelsIn(r, registers[r]) \cup Committed(loc))
            /\ \A i \in 0..(NUM_DIGITAL_INPUTS - 1) : StableLevel(i)' # StableLevel(i) =>
                   i \in Committed(loc)
       /\ (last'.op = "main" /\ pc' = "loop") =>
            /\ registers'[REG_INPUT_STATUS_LOW] = input_state_low'
            /\ registers'[REG_INPUT_STATUS_HIGH] = input_state_high']_vars

\* Input 1 went low and was committed at 1000 ms, went high again during
\* that tick, was seen high by the ticks from 1010 ms on and was committed
\* high only at 1050 ms.
C26_Witness ==
    /\ TickCompleted
    /\ now = MaxTimeChan
    /\ pin_hist[0].n = 2
    /\ pin_hist[0].t = BOOT_DELAY_MS
    /\ stable_since[0] = BOOT_DELAY_MS + INPUT_DEBOUNCE_MS
    /\ registers[REG_INPUT_STATUS_LOW] = 255
    /\ registers[REG_INPUT_CHANGED_LOW] = 1


\* The drive rule of the four H-bridges: the second pin of the two VU pairs
\* and of the backlight pair is at duty 0, and the tape pair has a pin at
\* duty 0 or brakes at (255, 255).
TapeBrakes == pwm["TAPE_MOTOR_IN1"] = PWM_MAX /\ pwm["TAPE_MOTOR_IN2"] = PWM_MAX
DriveRule ==
    /\ pwm["VU_LEFT_IN2"] = 0
    /\ pwm["VU_RIGHT_IN2"] = 0
    /\ pwm["BACKLIGHT_IN2"] = 0
    /\ pwm["TAPE_MOTOR_IN1"] = 0 \/ pwm["TAPE_MOTOR_IN2"] = 0 \/ TapeBrakes
BrakeSelected == TapeOn(registers) /\ registers[REG_TAPE_DIRECTION] = TAPE_DIR_BRAKE

\* C27 as stated: when a tick has just completed, the drive rule holds and
\* the tape pair is at (255, 255) only if the bank gates the tape on with
\* TAPE_DIRECTION = BRAKE.
C27_Original == TickCompleted => (DriveRule /\ (TapeBrakes => BrakeSelected))

\* C27 amended: when a tick has just completed, the drive rule holds; and if
\* the host wrote nothing during that tick, the tape pair is at (255, 255)
\* only if the bank gates the tape on with TAPE_DIRECTION = BRAKE.
C27_Amended ==
    TickCompleted => (DriveRule /\ ((tick_clean /\ TapeBrakes) => BrakeSelected))

\* A tick the host did not write into has completed with the tape motor
\* braking and the backlight driven on its first pin only.
C27_Witness ==
    /\ TickCompleted
    /\ tick_clean
    /\ TapeBrakes
    /\ BrakeSelected
    /\ pwm["BACKLIGHT_IN1"] = BACKLIGHT_DEFAULT
    /\ pwm["BACKLIGHT_IN2"] = 0


\* ---------------------------------------------------------------------------
\* Soft reset: input pin 0 or the button changes once, the encoder takes one
\* edge, the host sends CMD_RESET to the command port once, and the loop
\* ticks up to MaxTimeReset.
MaxTimeReset == 1010
MaxTogglesReset == 1
MaxEdgesReset == 1
MaxOpsReset == 1
NextReset ==
    \/ InputChange(0, MaxTogglesReset)
    \/ ButtonChange(MaxTogglesReset)
    \/ \E new_state \in 0..3 : EncoderEdge(new_state, MaxEdgesReset)
    \/ HostReceive(<<REG_COMMAND, CMD_RESET>>, MaxOpsReset)
    \/ MainStep
    \/ Delay(TICK_MS, MaxTimeReset)

SpecReset == Init /\ [][NextReset]_vars


\* The step serves the transaction [REG_COMMAND, CMD_RESET].
ResetServed == last'.op = "receive" /\ last'.bytes = <<REG_COMMAND, CMD_RESET>>

\* What a soft reset does: the bank is back at its defaults, the pointer is
\* where the two-byte transaction leaves it, and nothing else has moved.
OnlyTheBank ==
    /\ registers' = i2c_registers_init
    /\ current_register' = ToU8(REG_COMMAND + 1)
    /\ UNCHANGED <<encoder_position, encoder_delta, encoder_state,
                   input_state_low, input_state_high, input_last_change,
                   encoder_button_state, encoder_button_press_time,
                   encoder_button_last_release>>

\* A whole tick has run, undisturbed, right after a soft reset that was
\* served between two ticks.
FirstTickAfterReset == TickCompleted /\ tick_clean /\ after_reset = "ticking"

\* The bank shows the encoder position and the stable input bitmaps.
Republished ==
    /\ Word16(registers[REG_ENCODER_POS_LOW], registers[REG_ENCODER_POS_HIGH])
           = encoder_position
    /\ registers[REG_INPUT_STATUS_LOW] = input_state_low
    /\ registers[REG_INPUT_STATUS_HIGH] = input_state_high

NoChangeFlagged ==
    /\ registers[REG_INPUT_CHANGED_LOW] = 0
    /\ registers[REG_INPUT_CHANGED_HIGH] = 0
    /\ ~HasBit(registers[REG_STATUS], STATUS_INPUT_CHANGED)
    /\ ~HasBit(registers[REG_STATUS], STATUS_ENCODER_CHANGED)

\* The channels whose stable bit the tick that just ended has changed.
CommittedNow == {i \in 0..11 : stable_since[i] = now}

\* The change flags say what this tick did and nothing else.
FlagsOfThisTick ==
    /\ \A i \in 0..7 : BitAt(registers[REG_INPUT_CHANGED_LOW], i) = 1 <=> i \in CommittedNow
    /\ \A i \in 8..11 :
           BitAt(registers[REG_INPUT_CHANGED_HIGH], i - 8) = 1 <=> i \in CommittedNow
    /\ HasBit(registers[REG_STATUS], STATUS_INPUT_CHANGED) <=> CommittedNow # {}
    /\ HasBit(registers[REG_STATUS], STATUS_ENCODER_CHANGED)
           <=> registers[REG_ENCODER_DELTA] # 0

\* C28 as stated: a soft reset changes only the register bank, and the first
\* tick after it republishes the encoder position and the stable input
\* bitmaps without INPUT_CHANGED_* or a changed bit of STATUS set.
C28_Original ==
    [][/\ ResetServed => OnlyTheBank
       /\ FirstTickAfterReset' => (Republished' /\ NoChangeFlagged')]_vars

\* C28 amended: a soft reset changes only the register bank, and the first
\* tick after it republishes the encoder position and the stable input
\* bitmaps; INPUT_CHANGED_* and STATUS.INPUT_CHANGED show exactly the
\* channels that tick commits itself, and STATUS.ENCODER_CHANGED is set
\* exactly when that tick publishes a non-zero delta.
C28_Amended ==
    [][/\ ResetServed => OnlyTheBank
       /\ FirstTickAfterReset' => (Republished' /\ FlagsOfThisTick')]_vars

\* Input 1 went low and the encoder stepped before the tick at 1000; the
\* soft reset came after that tick, and the tick at 1010 has put both back
\* into the bank with no change flagged.
C28_Witness ==
    /\ FirstTickAfterReset
    /\ now = 1010
    /\ stable_since[0] = 1000
    /\ input_state_low = 254
    /\ registers[REG_INPUT_STATUS_LOW] = 254
    /\ encoder_position # 0
    /\ Republished
    /\ NoChangeFlagged

=============================================================================
